---- MODULE Spec2Model ----
(***************************************************************************)
(* The worklist fixpoint solver of creek (src/src/analyze.rs) with its two *)
(* direction strategies (src/src/problem.rs), run on the control-flow      *)
(* graphs and the gen/kill transfer of the repository's tests.             *)
(*                                                                         *)
(* A run is a record: the analyzer (sort, first_fact, init_fact, infos),   *)
(* the graph handed to solve, the local worklist of solve, the position of *)
(* solve (pc), the map it returned (ret), the sequence of dequeued ids     *)
(* (visits), the sequence of ids pushed onto the worklist (pushed) and the *)
(* completed calls of solve (calls).  One action is the                    *)
(* entry of solve, one iteration of its while loop, or its return.  run is *)
(* the analyzer under study, peer a second analyzer for the claims that    *)
(* compare two runs.                                                       *)
(***************************************************************************)
EXTENDS Naturals, Sequences, FiniteSets, TLC

\* Bounds of the model.
NumNodes == 3
MaxEdges == 3
NumVars == 2
ReuseNodes == 2

MaxRepeats == 1

VARIABLES run, peer

vars == <<run, peer>>

Vars == 1..NumVars
Facts == SUBSET Vars

(***************************************************************************)
(* Helpers: maps with a key set, ordered neighbour lists.                  *)
(***************************************************************************)
EmptyMap == [k \in {} |-> {}]

Keys(m) == DOMAIN m

Insert(m, k, v) == [x \in (DOMAIN m) \cup {k} |-> IF x = k THEN v ELSE m[x]]

OrInsert(m, k, v) == IF k \in DOMAIN m THEN m ELSE Insert(m, k, v)

Contains(s, x) == \E i \in 1..Len(s) : s[i] = x

Range(s) == {s[i] : i \in 1..Len(s)}

RECURSIVE Ascending(_)
Ascending(S) ==
  IF S = {} THEN <<>>
  ELSE LET m == CHOOSE x \in S : \A y \in S : x <= y
       IN <<m>> \o Ascending(S \ {m})

(***************************************************************************)
(* tests/cfg: blocks, graphs.  A block carries what the transfer reads of  *)
(* its statements: the variables it generates and the variables it kills.  *)
(***************************************************************************)
Blocks == {b \in [gen : Facts, kill : Facts] : b.gen \cap b.kill = {}}

\* The graph with the given node ids, edges, entry and exit; the neighbour
\* lists are mutually consistent.
NodeGraph(ids, edges, entry, exit, blocks) ==
  [ entry |-> entry,
    exit |-> exit,
    blocks |-> blocks,
    preds |-> [n \in ids |-> Ascending({e[1] : e \in {d \in edges : d[2] = n}})],
    succs |-> [n \in ids |-> Ascending({e[2] : e \in {d \in edges : d[1] = n}})] ]

\* The list with every id that is in twice named twice in a row.
RECURSIVE Repeated(_, _)
Repeated(list, twice) ==
  IF list = <<>> THEN <<>>
  ELSE (IF Head(list) \in twice THEN <<Head(list), Head(list)>> ELSE <<Head(list)>>)
         \o Repeated(Tail(list), twice)

\* The graph of NodeGraph in which the edges of twice are listed twice, in
\* the successor list of their source and the predecessor list of their
\* target.
NodeMultiGraph(ids, edges, twice, entry, exit, blocks) ==
  LET g == NodeGraph(ids, edges, entry, exit, blocks)
  IN [ g EXCEPT
         !.preds = [n \in ids |->
                      Repeated(g.preds[n], {e[1] : e \in {d \in twice : d[2] = n}})],
         !.succs = [n \in ids |->
                      Repeated(g.succs[n], {e[2] : e \in {d \in twice : d[1] = n}})] ]

Get(graph, id) == graph.blocks[id]

GetEntry(graph) == graph.entry

GetExit(graph) == graph.exit

GetPreds(graph, id) == graph.preds[id]

GetSuccs(graph, id) == graph.succs[id]

GraphIds(graph) == DOMAIN graph.blocks

\* reverse(G): entry and exit swapped, predecessor and successor lists swapped.
Reverse(graph) ==
  [ entry |-> graph.exit,
    exit |-> graph.entry,
    blocks |-> graph.blocks,
    preds |-> graph.succs,
    succs |-> graph.preds ]

EdgeSets(ids) == {E \in SUBSET (ids \X ids) : Cardinality(E) <= MaxEdges}

(***************************************************************************)
(* tests/live.rs, tests/defassgn.rs: the client's lattice.                 *)
(***************************************************************************)
Top == {}

\* trans(b) = union(gen(b), in(b) - kill(b))
Trans(node, fact) == node.gen \cup (fact \ node.kill)

\* Join that keeps the variables that are in every fact of the list.
JoinMeet(facts) ==
  IF facts = <<>> THEN {}
  ELSE {v \in facts[1] : \A i \in 1..Len(facts) : v \in facts[i]}

\* Join that returns the first fact of the list alone.
JoinFirst(facts) == IF facts = <<>> THEN {} ELSE facts[1]

\* join = union
Join(facts) == UNION {facts[i] : i \in 1..Len(facts)}

(***************************************************************************)
(* tests/cfg: statements, and what the two transfers of the tests make of  *)
(* the statement list of a block.                                          *)
(***************************************************************************)
Declare(var) == [op |-> "Declare", var |-> var, war |-> var]

ConstAssign(var) == [op |-> "ConstAssign", var |-> var, war |-> var]

VarAssign(var, war) == [op |-> "VarAssign", var |-> var, war |-> war]

\* tests/live.rs, trans: every assigned variable is killed, every variable
\* read by an assignment is used, whatever the order of the statements.
LiveBlock(stmts) ==
  [ gen |-> {stmts[i].war : i \in {j \in 1..Len(stmts) : stmts[j].op = "VarAssign"}},
    kill |-> {stmts[i].var : i \in {j \in 1..Len(stmts) : stmts[j].op # "Declare"}} ]

\* The transfer of tests/defassgn.rs with declarations left out.
RECURSIVE DefAssgnBlockNoDeclare(_)
DefAssgnBlockNoDeclare(stmts) ==
  IF stmts = <<>> THEN [gen |-> {}, kill |-> {}]
  ELSE LET stmt == stmts[Len(stmts)]
           b == DefAssgnBlockNoDeclare(SubSeq(stmts, 1, Len(stmts) - 1))
       IN IF stmt.op = "Declare" THEN b
          ELSE [gen |-> b.gen \ {stmt.var}, kill |-> b.kill \cup {stmt.var}]

\* tests/defassgn.rs, trans: the statements act on the fact in order, a
\* declaration inserts its variable, an assignment removes it.
RECURSIVE DefAssgnBlock(_)
DefAssgnBlock(stmts) ==
  IF stmts = <<>> THEN [gen |-> {}, kill |-> {}]
  ELSE LET stmt == stmts[Len(stmts)]
           b == DefAssgnBlock(SubSeq(stmts, 1, Len(stmts) - 1))
       IN IF stmt.op = "Declare"
          THEN [gen |-> b.gen \cup {stmt.var}, kill |-> b.kill \ {stmt.var}]
          ELSE [gen |-> b.gen \ {stmt.var}, kill |-> b.kill \cup {stmt.var}]

\* The statements of stmts at the positions of keep, in order.
Pick(stmts, keep) ==
  LET idx == Ascending(keep \cap (1..Len(stmts)))
  IN [i \in 1..Len(idx) |-> stmts[idx[i]]]

(***************************************************************************)
(* src/src/problem.rs: the direction strategies.                           *)
(***************************************************************************)
\* Forward assign that keeps the stored before and writes after alone.
ForwardAssignPinned(info, joined, transd) ==
  [before |-> info.before, after |-> transd]

ForwardAssign(info, joined, transd) == [before |-> joined, after |-> transd]

\* Backward assign written like the Forward one.
BackwardAssignUnswapped(info, joined, transd) ==
  [before |-> joined, after |-> transd]

BackwardAssign(info, joined, transd) == [before |-> transd, after |-> joined]

\* assign that stores the transferred fact and forgets the joined one.
AssignTransdOnly(sort, info, joined, transd) ==
  IF sort = "Forward" THEN [before |-> info.before, after |-> transd]
  ELSE [before |-> transd, after |-> info.after]

Assign(sort, info, joined, transd) ==
  IF sort = "Forward" THEN ForwardAssign(info, joined, transd)
  ELSE BackwardAssign(info, joined, transd)

\* get_nexts with the two directions mixed up.
GetNextsMixedUp(sort, graph, id) ==
  IF sort = "Forward" THEN GetPreds(graph, id) ELSE GetSuccs(graph, id)

GetNexts(sort, graph, id) ==
  IF sort = "Forward" THEN GetSuccs(graph, id) ELSE GetPreds(graph, id)

GetJoins(sort, graph, id) ==
  IF sort = "Forward" THEN GetPreds(graph, id) ELSE GetSuccs(graph, id)

GetFirst(sort, graph) ==
  IF sort = "Forward" THEN GetEntry(graph) ELSE GetExit(graph)

GetJoinFact(sort, info) ==
  IF sort = "Forward" THEN info.after ELSE info.before

(***************************************************************************)
(* src/src/analyze.rs: construction.                                       *)
(***************************************************************************)
NewForward(top) ==
  [ sort |-> "Forward",
    first_fact |-> [before |-> top, after |-> top],
    init_fact |-> [before |-> top, after |-> top],
    infos |-> EmptyMap ]

\* with_entry_fact that stores the fact on the output side of first_fact.
WithEntryFactAfter(self, enter) ==
  [self EXCEPT !.first_fact = [before |-> self.first_fact.before, after |-> enter]]

WithEntryFact(self, enter) ==
  [self EXCEPT !.first_fact = [before |-> enter, after |-> self.first_fact.after]]

NewBackward(top) ==
  [ sort |-> "Backward",
    first_fact |-> [before |-> top, after |-> top],
    init_fact |-> [before |-> top, after |-> top],
    infos |-> EmptyMap ]

WithExitFact(self, exit) ==
  [self EXCEPT !.first_fact = [before |-> self.first_fact.before, after |-> exit]]

(***************************************************************************)
(* src/src/analyze.rs: solve.                                              *)
(***************************************************************************)
\* solve_joins: the join of the join facts of the join sources of node_id;
\* a source without an entry gets init_fact inserted while it is read.
\* Returns the table after the insertions and the joined fact.
RECURSIVE SolveJoinsLoop(_, _, _, _)
SolveJoinsLoop(an, nexts, table, infos) ==
  IF nexts = <<>> THEN [table |-> table, infos |-> infos]
  ELSE LET t == OrInsert(table, Head(nexts), an.init_fact)
       IN SolveJoinsLoop(an, Tail(nexts), t,
                         Append(infos, GetJoinFact(an.sort, t[Head(nexts)])))

\* solve_joins that reads a missing source as init_fact without inserting
\* it.
SolveJoinsNoInsert(an, graph, node_id) ==
  LET r == SolveJoinsLoop(an, GetJoins(an.sort, graph, node_id), an.infos, <<>>)
  IN [table |-> an.infos, joined |-> Join(r.infos)]

SolveJoins(an, graph, node_id) ==
  LET r == SolveJoinsLoop(an, GetJoins(an.sort, graph, node_id), an.infos, <<>>)
  IN [table |-> r.table, joined |-> Join(r.infos)]

\* PushDirty without the contains check.
PushDirtyAll(worklist, nexts) == worklist \o nexts

\* PushDirty that puts the dirty targets at the front of the worklist.
RECURSIVE PushDirtyFront(_, _)
PushDirtyFront(worklist, nexts) ==
  IF nexts = <<>> THEN worklist
  ELSE PushDirtyFront(IF Contains(worklist, Head(nexts)) THEN worklist
                      ELSE <<Head(nexts)>> \o worklist,
                      Tail(nexts))

\* for dirty in get_nexts: if !worklist.contains(dirty) { push_back }
RECURSIVE PushDirty(_, _)
PushDirty(worklist, nexts) ==
  IF nexts = <<>> THEN worklist
  ELSE PushDirty(IF Contains(worklist, Head(nexts)) THEN worklist
                 ELSE Append(worklist, Head(nexts)),
                 Tail(nexts))

\* The ids a visit pushed: what the worklist holds beyond what was left of
\* it after the pop.
Pushed(popped, worklist) == SubSeq(worklist, Len(popped) + 1, Len(worklist))

\* The state of a run before solve is called on graph.
Start(an, graph) ==
  [ an |-> an, graph |-> graph, worklist |-> <<>>, pc |-> "new",
    ret |-> EmptyMap, visits |-> <<>>, pushed |-> <<>>, calls |-> <<>> ]

\* SolveInit that starts the worklist with every id of the graph instead of
\* the first node alone.
SolveInitAllIds(r, graph) ==
  LET first == GetFirst(r.an.sort, graph)
  IN [ r EXCEPT !.graph = graph,
                !.an.infos = Insert(EmptyMap, first, r.an.first_fact),
                !.worklist = Ascending(GraphIds(graph)),
                !.pc = "loop",
                !.ret = EmptyMap,
                !.visits = <<>>,
                !.pushed = Ascending(GraphIds(graph)) ]

\* solve, lines 132-139: clear the table, insert first_fact for the first
\* node, start the worklist with it.
SolveInit(r, graph) ==
  LET first == GetFirst(r.an.sort, graph)
  IN [ r EXCEPT !.graph = graph,
                !.an.infos = Insert(EmptyMap, first, r.an.first_fact),
                !.worklist = <<first>>,
                !.pc = "loop",
                !.ret = EmptyMap,
                !.visits = <<>>,
                !.pushed = <<first>> ]

\* Visit with the convergence check left out: the dirty targets are
\* enqueued whether or not the transferred fact changed.
VisitAlwaysDirty(r) ==
  LET id == Head(r.worklist)
      sj == SolveJoins(r.an, r.graph, id)
      transd == Trans(Get(r.graph, id), sj.joined)
      table == OrInsert(sj.table, id, r.an.init_fact)
  IN [ r EXCEPT !.an.infos = [table EXCEPT ![id] =
                                 Assign(r.an.sort, table[id], sj.joined, transd)],
                !.worklist = PushDirty(Tail(r.worklist),
                                       GetNexts(r.an.sort, r.graph, id)),
                !.visits = Append(r.visits, id),
                !.pushed = r.pushed \o
                             Pushed(Tail(r.worklist),
                                    PushDirty(Tail(r.worklist),
                                              GetNexts(r.an.sort, r.graph, id))) ]

\* Visit whose convergence check compares the transferred fact with the
\* side of the stored info that holds the joined fact.
VisitGateWrongSide(r) ==
  LET id == Head(r.worklist)
      popped == Tail(r.worklist)
      sj == SolveJoins(r.an, r.graph, id)
      transd == Trans(Get(r.graph, id), sj.joined)
      table == OrInsert(sj.table, id, r.an.init_fact)
      prev == IF r.an.sort = "Forward" THEN table[id].before ELSE table[id].after
      worklist == IF prev # transd
                  THEN PushDirty(popped, GetNexts(r.an.sort, r.graph, id))
                  ELSE popped
  IN [ r EXCEPT !.an.infos = [table EXCEPT ![id] =
                                 Assign(r.an.sort, table[id], sj.joined, transd)],
                !.worklist = worklist,
                !.visits = Append(r.visits, id),
                !.pushed = r.pushed \o Pushed(popped, worklist) ]

\* solve, lines 141-162: one iteration of the while loop.
Visit(r) ==
  LET id == Head(r.worklist)
      popped == Tail(r.worklist)
      node == Get(r.graph, id)
      sj == SolveJoins(r.an, r.graph, id)
      joined == sj.joined
      transd == Trans(node, joined)
      table == OrInsert(sj.table, id, r.an.init_fact)
      prev_trans == GetJoinFact(r.an.sort, table[id])
      worklist == IF prev_trans # transd
                  THEN PushDirty(popped, GetNexts(r.an.sort, r.graph, id))
                  ELSE popped
  IN [ r EXCEPT !.an.infos = [table EXCEPT ![id] =
                                 Assign(r.an.sort, table[id], joined, transd)],
                !.worklist = worklist,
                !.visits = Append(r.visits, id),
                !.pushed = r.pushed \o Pushed(popped, worklist) ]

\* Return that hands out a copy of the table and leaves the table as it is.
ReturnKeepsTable(r) ==
  [ r EXCEPT !.ret = r.an.infos,
             !.pc = "done",
             !.calls = Append(r.calls, [graph |-> r.graph, ret |-> r.an.infos]) ]

\* solve, line 164: the loop is left, the table is drained into the result.
Return(r) ==
  [ r EXCEPT !.ret = r.an.infos,
             !.an.infos = EmptyMap,
             !.pc = "done",
             !.calls = Append(r.calls, [graph |-> r.graph, ret |-> r.an.infos]) ]

(***************************************************************************)
(* Spec: one analyzer, constructed in either direction with or without a   *)
(* seed fact, solves one graph.                                            *)
(***************************************************************************)
Idle == [pc |-> "none"]

\* The facts handed to with_entry_fact / with_exit_fact: the least and the
\* greatest.
SeedFacts == {Top, Vars}

Analyzers ==
  {NewForward(Top), NewBackward(Top)}
    \cup {WithEntryFact(NewForward(Top), s) : s \in SeedFacts}
    \cup {WithExitFact(NewBackward(Top), s) : s \in SeedFacts}

\* The loop of solve is followed for at most this many iterations: a fact
\* rises at most NumVars times and each rise enqueues at most the targets of
\* the node's edges.
MaxVisits == 1 + NumVars * MaxEdges

\* The graphs have the ids 1..k, are entered at 1 and left at k, as the
\* tests build them.
Init ==
  /\ \E an \in Analyzers, k \in 1..NumNodes :
       \E E \in EdgeSets(1..k), bl \in [1..k -> Blocks] :
          run = Start(an, NodeGraph(1..k, E, 1, k, bl))
  /\ peer = Idle

Solve ==
  /\ run.pc = "new"
  /\ run' = SolveInit(run, run.graph)
  /\ UNCHANGED peer

Step ==
  /\ run.pc = "loop"
  /\ run.worklist # <<>>
  /\ Len(run.visits) < MaxVisits
  /\ run' = Visit(run)
  /\ UNCHANGED peer

Finish ==
  /\ run.pc = "loop"
  /\ run.worklist = <<>>
  /\ run' = Return(run)
  /\ UNCHANGED peer

Next == Solve \/ Step \/ Finish

Spec == Init /\ [][Next]_vars

(***************************************************************************)
(* MultiSpec: an analyzer without seed fact solves a graph in which up to  *)
(* MaxRepeats edges are listed twice in the neighbour lists.               *)
(***************************************************************************)
MultiInit ==
  /\ \E an \in {NewForward(Top), NewBackward(Top)}, k \in 1..NumNodes :
       \E E \in EdgeSets(1..k), bl \in [1..k -> Blocks] :
         \E D \in {T \in SUBSET E : Cardinality(T) <= MaxRepeats} :
           run = Start(an, NodeMultiGraph(1..k, E, D, 1, k, bl))
  /\ peer = Idle

MultiSpec == MultiInit /\ [][Next]_vars

(***************************************************************************)
(* ScenarioSpec: the liveness analysis of tests/live.rs (Backward) and the *)
(* unassigned-variable analysis of tests/defassgn.rs (Forward) solve the   *)
(* graphs of the tests one_loop and one_branch, with the statements of the *)
(* tests or any part of them in each block.                                *)
(***************************************************************************)
OneLoopEdges == {<<1, 2>>, <<2, 2>>, <<2, 3>>}

OneLoopStmts ==
  << <<ConstAssign(0)>>,
     <<ConstAssign(1), VarAssign(2, 0)>>,
     <<VarAssign(3, 0), VarAssign(4, 1)>> >>

OneBranchEdges == {<<1, 2>>, <<1, 3>>, <<2, 3>>}

OneBranchStmts ==
  << <<Declare(0)>>, <<ConstAssign(0)>>, <<VarAssign(1, 0)>> >>

Programs ==
  { [edges |-> OneLoopEdges, stmts |-> OneLoopStmts],
    [edges |-> OneBranchEdges, stmts |-> OneBranchStmts] }

LiveGraph(edges, stmts) ==
  NodeGraph(DOMAIN stmts, edges, 1, Len(stmts), [n \in DOMAIN stmts |-> LiveBlock(stmts[n])])

DefAssgnGraph(edges, stmts) ==
  NodeGraph(DOMAIN stmts, edges, 1, Len(stmts), [n \in DOMAIN stmts |-> DefAssgnBlock(stmts[n])])

ScenarioInit ==
  /\ \E p \in Programs :
       \E keep \in [DOMAIN p.stmts ->
                       SUBSET UNION {DOMAIN p.stmts[n] : n \in DOMAIN p.stmts}] :
         LET stmts == [n \in DOMAIN p.stmts |-> Pick(p.stmts[n], keep[n])]
         IN \/ run = Start(NewBackward(Top), LiveGraph(p.edges, stmts))
            \/ run = Start(WithEntryFact(NewForward(Top), Top),
                           DefAssgnGraph(p.edges, stmts))
  /\ peer = Idle

ScenarioSpec == ScenarioInit /\ [][Next]_vars

(***************************************************************************)
(* DualSpec: a Forward analyzer solves a graph, then a Backward analyzer   *)
(* built with the same seed fact solves the reversed graph.                *)
(***************************************************************************)
PeerSolve ==
  /\ run.pc = "done"
  /\ peer.pc = "new"
  /\ peer' = SolveInit(peer, peer.graph)
  /\ UNCHANGED run

PeerStep ==
  /\ peer.pc = "loop"
  /\ peer.worklist # <<>>
  /\ Len(peer.visits) < MaxVisits
  /\ peer' = Visit(peer)
  /\ UNCHANGED run

PeerFinish ==
  /\ peer.pc = "loop"
  /\ peer.worklist = <<>>
  /\ peer' = Return(peer)
  /\ UNCHANGED run

DualInit ==
  \E s \in SeedFacts, k \in 1..NumNodes :
    \E E \in EdgeSets(1..k), bl \in [1..k -> Blocks] :
      LET g == NodeGraph(1..k, E, 1, k, bl)
      IN /\ run = Start(WithEntryFact(NewForward(Top), s), g)
         /\ peer = Start(WithExitFact(NewBackward(Top), s), Reverse(g))

DualNext == Solve \/ Step \/ Finish \/ PeerSolve \/ PeerStep \/ PeerFinish

DualSpec == DualInit /\ [][DualNext]_vars

(***************************************************************************)
(* SeedSpec: two analyzers of the same direction, built with different     *)
(* seed facts, solve the same graph one after the other.                   *)
(***************************************************************************)
SeedInit ==
  \E s \in SeedFacts, k \in 1..NumNodes :
    \E t \in SeedFacts \ {s}, E \in EdgeSets(1..k), bl \in [1..k -> Blocks] :
      LET g == NodeGraph(1..k, E, 1, k, bl)
      IN \/ /\ run = Start(WithEntryFact(NewForward(Top), s), g)
            /\ peer = Start(WithEntryFact(NewForward(Top), t), g)
         \/ /\ run = Start(WithExitFact(NewBackward(Top), s), g)
            /\ peer = Start(WithExitFact(NewBackward(Top), t), g)

SeedSpec == SeedInit /\ [][DualNext]_vars

(***************************************************************************)
(* ExtraSpec: an analyzer solves a graph; an analyzer built the same way   *)
(* solves the graph with one more node, id 0, which is listed first among  *)
(* the join sources of one node and is no dirty target of any node.        *)
(***************************************************************************)
ExtraInit ==
  \E an \in {NewForward(Top), NewBackward(Top)}, k \in 1..NumNodes :
    \E E \in EdgeSets(1..k), bl \in [1..k -> Blocks], n \in 1..k :
      LET x == 0
          edge == IF an.sort = "Forward" THEN <<x, n>> ELSE <<n, x>>
          blx == [i \in (1..k) \cup {x} |->
                    IF i = x THEN [gen |-> {}, kill |-> {}] ELSE bl[i]]
      IN /\ run = Start(an, NodeGraph(1..k, E, 1, k, bl))
         /\ peer = Start(an, NodeGraph((1..k) \cup {x}, E \cup {edge}, 1, k, blx))

ExtraSpec == ExtraInit /\ [][DualNext]_vars

(***************************************************************************)
(* ReuseSpec: an analyzer solves graph A; a freshly constructed analyzer   *)
(* with the same parameters solves graph B; the first analyzer is then     *)
(* reused to solve B.  A and B have the same blocks and any edges.         *)
(***************************************************************************)
Resolve ==
  /\ run.pc = "done"
  /\ Len(run.calls) = 1
  /\ peer.pc = "done"
  /\ run' = SolveInit(run, peer.graph)
  /\ UNCHANGED peer

ReuseInit ==
  \E an \in Analyzers, k \in 1..ReuseNodes :
    \E EA \in EdgeSets(1..k), EB \in EdgeSets(1..k), bl \in [1..k -> Blocks] :
      /\ run = Start(an, NodeGraph(1..k, EA, 1, k, bl))
      /\ peer = Start(an, NodeGraph(1..k, EB, 1, k, bl))

ReuseNext == DualNext \/ Resolve

ReuseSpec == ReuseInit /\ [][ReuseNext]_vars

(***************************************************************************)
(* What the claims speak of.                                               *)
(***************************************************************************)
\* The analyzer's table while solve runs, the returned map afterwards.
Table(r) == IF r.pc = "done" THEN r.ret ELSE r.an.infos

Visited(r) == Range(r.visits)

\* The join fact a table holds for m; an absent entry counts as top.
JoinFactOf(sort, table, m) ==
  IF m \in DOMAIN table THEN GetJoinFact(sort, table[m]) ELSE Top

\* join([join_fact(info[m]) for m in join_sources(n)]) on a table.
JoinedOn(sort, graph, table, n) ==
  LET js == GetJoins(sort, graph, n)
  IN Join([i \in 1..Len(js) |-> JoinFactOf(sort, table, js[i])])

\* The side of an info that assign fills with joined.
PreJoinSide(sort, info) == IF sort = "Forward" THEN info.before ELSE info.after

Seed(r) == GetFirst(r.an.sort, r.graph)

\* The fact given to with_entry_fact / with_exit_fact (top when none was).
SeedFact(an) ==
  IF an.sort = "Forward" THEN an.first_fact.before ELSE an.first_fact.after

\* C1: when solve has returned, every node that was dequeued satisfies
\* join_fact(info[n]) = trans(n, join of the join facts of its join sources).
C1_Fixpoint ==
  run.pc = "done" =>
    \A n \in Visited(run) :
      GetJoinFact(run.an.sort, run.ret[n])
        = Trans(Get(run.graph, n), JoinedOn(run.an.sort, run.graph, run.ret, n))

\* A run that has returned after dequeuing some node more than once, with a
\* fact that was raised above top.
C1_Witness ==
  /\ run.pc = "done"
  /\ Len(run.visits) > Cardinality(Visited(run))
  /\ \E n \in Visited(run) : GetJoinFact(run.an.sort, run.ret[n]) = Vars

\* C4: solve terminates: while the worklist is not empty the loop has run
\* fewer than MaxVisits times, so a run never stops anywhere but at its
\* return: the worklist becomes empty and the map is returned.
C4_Termination ==
  (run.pc = "loop" /\ run.worklist # <<>>) => Len(run.visits) < MaxVisits

\* A run over a cyclic graph that returned after more visits than the graph
\* has nodes.
C4_Witness ==
  /\ run.pc = "done"
  /\ Len(run.visits) > Cardinality(GraphIds(run.graph))
  /\ \E n \in GraphIds(run.graph) : Contains(GetSuccs(run.graph, n), n)

\* The nodes reached from the seed along dirty-target edges.
RECURSIVE ReachFrom(_, _, _)
ReachFrom(sort, graph, S) ==
  LET T == S \cup UNION {Range(GetNexts(sort, graph, n)) : n \in S}
  IN IF T = S THEN S ELSE ReachFrom(sort, graph, T)

\* The least solution of the direction's equations
\*   out[n] = trans(n, join(out[m] : m a join source of n)),
\* by iteration from top everywhere.
RECURSIVE LeastFrom(_, _, _)
LeastFrom(sort, graph, out) ==
  LET step == [n \in GraphIds(graph) |->
                 LET js == GetJoins(sort, graph, n)
                 IN Trans(Get(graph, n), Join([i \in 1..Len(js) |-> out[js[i]]]))]
  IN IF step = out THEN out ELSE LeastFrom(sort, graph, step)

LeastInfos(sort, graph) ==
  LET out == LeastFrom(sort, graph, [n \in GraphIds(graph) |-> Top])
      in(n) == LET js == GetJoins(sort, graph, n)
               IN Join([i \in 1..Len(js) |-> out[js[i]]])
  IN [n \in GraphIds(graph) |->
        IF sort = "Forward" THEN [before |-> in(n), after |-> out[n]]
        ELSE [before |-> out[n], after |-> in(n)]]

\* C2: on a graph whose nodes are all reachable from the seed along
\* dirty-target edges, the returned map has an entry for every node and each
\* entry is the least solution of the direction's equations.
C2_LeastSolution ==
  (/\ run.pc = "done"
   /\ ReachFrom(run.an.sort, run.graph, {Seed(run)}) = GraphIds(run.graph))
    => run.ret = LeastInfos(run.an.sort, run.graph)

\* C3: while solve runs and when it has returned, the pinned side of the seed
\* node's info (before of the entry for Forward, after of the exit for
\* Backward) is the seed fact the analyzer was built with.
C3_SeedPinning ==
  run.pc \in {"loop", "done"} =>
    PreJoinSide(run.an.sort, Table(run)[Seed(run)]) = SeedFact(run.an)

\* C5, as claimed: the key set of the returned map is the set of dequeued ids.
C5_KeysAreVisited == run.pc = "done" => Keys(run.ret) = Visited(run)

\* C5, amended: the key set of the returned map is the set of dequeued ids
\* together with the join sources of the dequeued ids.
C5_KeysVisitedOrRead ==
  run.pc = "done" =>
    Keys(run.ret) =
      Visited(run)
        \cup UNION {Range(GetJoins(run.an.sort, run.graph, n)) : n \in Visited(run)}

\* A returned map with a key that was never dequeued, beside a node of the
\* graph that has no entry at all.
C5_Witness ==
  /\ run.pc = "done"
  /\ Keys(run.ret) \ Visited(run) # {}
  /\ GraphIds(run.graph) \ Keys(run.ret) # {}

\* C8: on the graph of one node without edges, a Forward analyzer with seed
\* fact S and the identity transfer returns {node |-> (top, S)} after one
\* visit.
C8_SingleNode ==
  (/\ run.pc = "done"
   /\ run.an.sort = "Forward"
   /\ GraphIds(run.graph) = {1}
   /\ GetSuccs(run.graph, 1) = <<>>
   /\ Get(run.graph, 1) = [gen |-> {}, kill |-> {}])
    => /\ run.ret = Insert(EmptyMap, 1, [before |-> Top, after |-> SeedFact(run.an)])
       /\ run.visits = <<1>>

\* C9: a Forward analyzer built by new_forward alone returns top as the
\* entry node's before, on every graph.
C9_SeedDefault ==
  (run.pc = "done" /\ run.an = NewForward(Top))
    => run.ret[GetEntry(run.graph)].before = Top

\* C10: in the returned map the pre-join side of every entry is the join of
\* the join facts of the node's join sources on that map.
C10_JoinedSide ==
  run.pc = "done" =>
    \A n \in Keys(run.ret) :
      PreJoinSide(run.an.sort, run.ret[n])
        = JoinedOn(run.an.sort, run.graph, run.ret, n)

\* A returned map with an entry that was never dequeued and a visited node
\* whose pre-join side was raised above top.
C10_Witness ==
  /\ run.pc = "done"
  /\ Keys(run.ret) \ Visited(run) # {}
  /\ \E n \in Visited(run) : PreJoinSide(run.an.sort, run.ret[n]) = Vars

Swap(info) == [before |-> info.after, after |-> info.before]

\* C6: a Forward analyzer on G and a Backward analyzer with the same seed
\* fact on reverse(G) dequeue the same ids in the same order and return maps
\* with the same keys whose infos are equal after swapping before and after.
C6_Duality ==
  (run.pc = "done" /\ peer.pc = "done") =>
    /\ run.visits = peer.visits
    /\ Keys(run.ret) = Keys(peer.ret)
    /\ \A n \in Keys(run.ret) : run.ret[n] = Swap(peer.ret[n])

\* Both runs returned, after a node was dequeued twice, and some info has
\* different sides.
C6_Witness ==
  /\ run.pc = "done"
  /\ peer.pc = "done"
  /\ Len(peer.visits) > Cardinality(Visited(peer))
  /\ \E n \in Keys(peer.ret) : peer.ret[n].before # peer.ret[n].after

\* C7: the map a reused analyzer returns for graph B is the map a freshly
\* constructed analyzer returns for B, two calls on the same graph return
\* equal maps, and no entry stays in the analyzer's table once solve has
\* returned.
C7_Reuse ==
  /\ (run.pc = "done" /\ Len(run.calls) = 2 /\ peer.pc = "done")
       => run.calls[2].ret = peer.ret
  /\ \A i, j \in 1..Len(run.calls) :
       run.calls[i].graph = run.calls[j].graph
         => run.calls[i].ret = run.calls[j].ret
  /\ run.pc = "done" => run.an.infos = EmptyMap

\* The reused analyzer returned from its second call, on a graph other than
\* the first, and the first call's map had an entry the second lacks.
C7_Witness ==
  /\ run.pc = "done"
  /\ Len(run.calls) = 2
  /\ run.calls[1].graph # run.calls[2].graph
  /\ Keys(run.calls[1].ret) \ Keys(run.calls[2].ret) # {}
  /\ \E n \in Keys(run.calls[1].ret) : run.calls[1].ret[n].after = Vars

\* The ids of the neighbour lists of node id.
Neighbours(graph, id) == Range(GetPreds(graph, id)) \cup Range(GetSuccs(graph, id))

\* C11: every id that solve resolves with Graph::get (the dequeued ids, in
\* order) is the graph's entry or exit id or is in the predecessor or
\* successor list of a node that was dequeued before it.
C11_IdProvenance ==
  \A i \in 1..Len(run.visits) :
    \/ run.visits[i] \in {GetEntry(run.graph), GetExit(run.graph)}
    \/ \E j \in 1..(i - 1) : run.visits[i] \in Neighbours(run.graph, run.visits[j])

\* A run that returned after resolving an id that is neither the entry nor
\* the exit, and that left a node of the graph unresolved.
C11_Witness ==
  /\ run.pc = "done"
  /\ Visited(run) \ {GetEntry(run.graph), GetExit(run.graph)} # {}
  /\ GraphIds(run.graph) \ Visited(run) # {}

\* The stored join fact of a visited node agrees with the current table.
Settled(r, n) ==
  GetJoinFact(r.an.sort, r.an.infos[n])
    = Trans(Get(r.graph, n), JoinedOn(r.an.sort, r.graph, r.an.infos, n))

\* C16: at every loop head, a node that has been dequeued and is not in the
\* worklist has a stored join fact equal to its transfer applied to the join
\* of the current join facts of its join sources.
C16_WorklistInvariant ==
  run.pc = "loop" =>
    \A n \in Visited(run) : ~Contains(run.worklist, n) => Settled(run, n)

\* A loop head with a visited node that is stale and queued beside a visited
\* node that is not queued.
C16_Witness ==
  /\ run.pc = "loop"
  /\ \E n \in Visited(run) : Contains(run.worklist, n) /\ ~Settled(run, n)
  /\ \E n \in Visited(run) : ~Contains(run.worklist, n)

\* The number of times id occurs in seq.
Count(seq, id) == Cardinality({i \in 1..Len(seq) : seq[i] = id})

\* C17: with gen/kill transfers and join = union over the subsets ordered by
\* inclusion (top = {} the least), a visit never replaces the stored join
\* fact of a node by one that does not include it.
C17_MonotoneAscent ==
  [][(run.pc = "loop" /\ run'.pc = "loop") =>
       \A n \in Keys(run.an.infos) :
         GetJoinFact(run.an.sort, run.an.infos[n])
           \subseteq GetJoinFact(run.an.sort, run'.an.infos[n])]_vars

\* A loop head after a node was visited twice and its join fact has risen
\* to the greatest fact, in a run of an analyzer with a seed fact.
C17_Witness ==
  /\ run.pc = "loop"
  /\ SeedFact(run.an) = Vars
  /\ \E n \in Visited(run) :
       /\ Count(run.visits, n) >= 2
       /\ GetJoinFact(run.an.sort, run.an.infos[n]) = Vars

\* C18: once a node has been visited every join source of it is a key of
\* the table, and a key of the returned map that was never dequeued has the
\* value (top, top).
C18_DefaultInsertion ==
  /\ run.pc \in {"loop", "done"} =>
       \A n \in Visited(run) :
         Range(GetJoins(run.an.sort, run.graph, n)) \subseteq Keys(Table(run))
  /\ run.pc = "done" =>
       \A m \in Keys(run.ret) \ Visited(run) :
         run.ret[m] = [before |-> Top, after |-> Top]

\* A returned map in which a join source of a visited node that was raised
\* above top was never dequeued itself.
C18_Witness ==
  /\ run.pc = "done"
  /\ \E n \in Visited(run) :
       /\ GetJoinFact(run.an.sort, run.ret[n]) # Top
       /\ \E m \in Range(GetJoins(run.an.sort, run.graph, n)) :
            m \notin Visited(run) /\ m \in Keys(run.ret)

\* The number of edges of the graph.
RECURSIVE SumLen(_, _)
SumLen(lists, S) ==
  IF S = {} THEN 0
  ELSE LET n == CHOOSE x \in S : TRUE
       IN Len(lists[n]) + SumLen(lists, S \ {n})

NumEdges(graph) == SumLen(graph.succs, GraphIds(graph))

\* The height of the lattice of facts: the longest chain rises NumVars times.
Height == NumVars

\* C19, as claimed: solve dequeues at most node count x lattice height
\* nodes.
C19_NodesTimesHeight ==
  Len(run.visits) <= Cardinality(GraphIds(run.graph)) * Height

\* C19, amended: solve dequeues at most 1 + edge count x lattice height
\* nodes: the seed, and for every edge its target once per rise of its
\* source.
C19_EdgesTimesHeight ==
  Len(run.visits) <= 1 + NumEdges(run.graph) * Height

\* A run on a graph with a cycle through all of its nodes that returned
\* after more than node count x lattice height visits.
C19_Witness ==
  /\ run.pc = "done"
  /\ ReachFrom(run.an.sort, run.graph, {Seed(run)}) = GraphIds(run.graph)
  /\ Len(run.visits) > Cardinality(GraphIds(run.graph)) * Height

\* C20: the dequeued ids followed by the queued ids are the pushed ids in
\* the order they were pushed, so ids are dequeued in the order they were
\* enqueued, and the first one is the seed.
C20_Fifo ==
  run.pc \in {"loop", "done"} =>
    /\ run.pushed = run.visits \o run.worklist
    /\ run.pushed[1] = Seed(run)

\* A run that returned after it dequeued a node twice and a greater id
\* before a smaller one.
C20_Witness ==
  /\ run.pc = "done"
  /\ Len(run.visits) > Cardinality(Visited(run))
  /\ \E i, j \in 1..Len(run.visits) : i < j /\ run.visits[i] > run.visits[j]

\* The ids of nexts that are not in queued, in list order, each once.
RECURSIVE Unqueued(_, _)
Unqueued(nexts, queued) ==
  IF nexts = <<>> THEN <<>>
  ELSE IF Head(nexts) \in queued THEN Unqueued(Tail(nexts), queued)
       ELSE <<Head(nexts)>> \o Unqueued(Tail(nexts), queued \cup {Head(nexts)})

\* C14: a visit of id leaves the rest of the worklist in place and appends
\* to it, when the join fact stored for id before the visit (top if absent)
\* differs from the one stored by the visit, the dirty targets of id that
\* are not queued, in list order, and nothing when the two are equal.
C14_ChangeGate ==
  [][(run.pc = "loop" /\ run'.pc = "loop") =>
       LET id == Head(run.worklist)
           sort == run.an.sort
           prev == JoinFactOf(sort, run.an.infos, id)
           transd == GetJoinFact(sort, run'.an.infos[id])
           rest == Tail(run.worklist)
       IN run'.worklist =
            IF prev # transd
            THEN rest \o Unqueued(GetNexts(sort, run.graph, id), Range(rest))
            ELSE rest]_vars

\* A loop head reached by the second visit of a node with dirty targets,
\* which left the node itself out of the worklist, after earlier visits
\* pushed ids.
C14_Witness ==
  /\ run.pc = "loop"
  /\ Len(run.pushed) >= 4
  /\ Len(run.visits) >= 3
  /\ run.worklist # <<>>
  /\ LET id == run.visits[Len(run.visits)]
     IN /\ Count(run.visits, id) >= 2
        /\ GetNexts(run.an.sort, run.graph, id) # <<>>
        /\ ~Contains(run.worklist, id)

\* C15: while solve runs no id occurs twice in the worklist, on graphs with
\* self-loops and with ids repeated in a neighbour list as on any other.
C15_NoDuplicates ==
  run.pc = "loop" =>
    \A i, j \in 1..Len(run.worklist) :
      i # j => run.worklist[i] # run.worklist[j]

\* A loop head after the visit of a node that is its own dirty target and
\* has an id twice in its list of dirty targets, with both ids queued.
C15_Witness ==
  /\ run.pc = "loop"
  /\ run.visits # <<>>
  /\ LET n == run.visits[Len(run.visits)]
         nexts == GetNexts(run.an.sort, run.graph, n)
     IN /\ Contains(nexts, n)
        /\ Contains(run.worklist, n)
        /\ \E m \in Range(nexts) :
             /\ m # n
             /\ Count(nexts, m) = 2
             /\ Contains(run.worklist, m)

\* C12: the Backward liveness analysis on the graph of one_loop terminates
\* and returns 1:(before {}, after {v0}), 2:(before {v0}, after {v0, v1}),
\* 3:(before {v0, v1}, after {}).
C12_OneLoop ==
  (run.an = NewBackward(Top) /\ run.graph = LiveGraph(OneLoopEdges, OneLoopStmts))
    => /\ (run.pc = "loop" /\ run.worklist # <<>>) => Len(run.visits) < MaxVisits
       /\ run.pc = "done" =>
            run.ret = << [before |-> {}, after |-> {0}],
                         [before |-> {0}, after |-> {0, 1}],
                         [before |-> {0, 1}, after |-> {}] >>

\* The liveness analysis returned on the graph of one_loop after visiting
\* the block with the self-loop twice.
C12_Witness ==
  /\ run.pc = "done"
  /\ run.an = NewBackward(Top)
  /\ run.graph = LiveGraph(OneLoopEdges, OneLoopStmts)
  /\ Count(run.visits, 2) = 2

\* C13: the Forward unassigned-variable analysis with seed fact {} on the
\* graph of one_branch returns 1:(before {}, after {v0}),
\* 2:(before {v0}, after {}), 3:(before {v0}, after {v0}).
C13_OneBranch ==
  (/\ run.pc = "done"
   /\ run.an = WithEntryFact(NewForward(Top), Top)
   /\ run.graph = DefAssgnGraph(OneBranchEdges, OneBranchStmts))
    => run.ret = << [before |-> {}, after |-> {0}],
                    [before |-> {0}, after |-> {}],
                    [before |-> {0}, after |-> {0}] >>

\* The unassigned-variable analysis returned on the graph of one_branch
\* after visiting its three blocks.
C13_Witness ==
  /\ run.pc = "done"
  /\ run.an.sort = "Forward"
  /\ run.graph = DefAssgnGraph(OneBranchEdges, OneBranchStmts)
  /\ run.visits = <<1, 2, 3>>

C22_TopIdentity ==
  (run.pc = "done" /\ peer.pc = "done") =>
    /\ run.visits = peer.visits
    /\ \A n \in GraphIds(run.graph) :
         /\ n \in Keys(run.ret) <=> n \in Keys(peer.ret)
         /\ n \in Keys(run.ret) => run.ret[n] = peer.ret[n]

\* Both runs returned; the extra source was read first in the list of a
\* node that was dequeued twice and whose joined fact rose above top, and
\* was never dequeued itself.
C22_Witness ==
  /\ run.pc = "done"
  /\ peer.pc = "done"
  /\ 0 \in Keys(peer.ret) \ Visited(peer)
  /\ \E n \in Visited(peer) :
       /\ Head(GetJoins(peer.an.sort, peer.graph, n)) = 0
       /\ Count(peer.visits, n) >= 2
       /\ PreJoinSide(peer.an.sort, peer.ret[n]) # Top

====
